---- MODULE Spec2Model ----
(***************************************************************************)
(* A model of bm2019_temp.py: the temperature-source loader, the sun       *)
(* table, the daily-average aggregation and the two charts.                *)
(*                                                                         *)
(* Numbers.  Temperatures are exact rationals <<n, d>> (d > 0, lowest      *)
(* terms); the script computes them in binary floating point, so every     *)
(* equality below is the exact-arithmetic statement of the corresponding   *)
(* floating-point one.                                                     *)
(*                                                                         *)
(* Time.  An instant is a number of minutes since 2019-08-22 00:00 UTC     *)
(* (the first day of get_sun_transitions' default range).  A timestamp is  *)
(* [inst, tz]: tz = "naive" for a timestamp without zone (inst is then its *)
(* wall-clock reading), tz = "NaT" for pandas' missing timestamp.          *)
(***************************************************************************)
EXTENDS Integers, Sequences, FiniteSets, TLC

VARIABLES
    registry,   \* REGISTERED_DATA: the source descriptors and their CSV files
    data,       \* per source: the attribute source.data
    pc,         \* the position of the running session
    err,        \* the exception that ended the session ("none": none)
    sun_range,  \* the date range of the last get_sun_transitions call: <<first day, days>>
    sun_df,     \* the table get_sun_transitions returned (<< >>: not yet)
    fig_week,   \* the figure plot_week_temperatures built
    fig_avg,    \* the figure plot_period_averages built
    files,      \* the HTML files written under FIGURE_PATH
    fn_in,      \* the argument of a function applied on its own
    fn_out      \* its result

vars == <<registry, data, pc, err, sun_range, sun_df, fig_week, fig_avg, files, fn_in, fn_out>>

-----------------------------------------------------------------------------
(* Bounds of the model *)

\* number of sources in the registry
NumSources == 2
\* longest date range passed to get_sun_transitions by a direct call
MaxDays == 3
\* Celsius inputs of the round trip: -MaxTenths/10 .. MaxTenths/10 degrees
MaxTenths == 400
\* longest series handed to mean_time
MaxMeanLen == 3

-----------------------------------------------------------------------------
(* Exact rational arithmetic *)

Abs(n) == IF n < 0 THEN -n ELSE n

RECURSIVE GCD(_, _)
GCD(a, b) == IF b = 0 THEN a ELSE GCD(b, a % b)

\* the rational n/d in lowest terms with a positive denominator
Rat(n, d) ==
    LET s == IF d < 0 THEN -1 ELSE 1
        g == GCD(Abs(n), Abs(d))
    IN  <<(s * n) \div g, (s * d) \div g>>

RInt(n) == <<n, 1>>
RAdd(a, b) == Rat(a[1] * b[2] + b[1] * a[2], a[2] * b[2])
RSub(a, b) == Rat(a[1] * b[2] - b[1] * a[2], a[2] * b[2])
RMul(a, b) == Rat(a[1] * b[1], a[2] * b[2])
RDivInt(a, k) == Rat(a[1], a[2] * k)

\* a missing value (pandas' NaN)
NaN == <<0, 0>>

RECURSIVE RSum(_)
RSum(s) == IF s = << >> THEN RInt(0) ELSE RAdd(Head(s), RSum(Tail(s)))

-----------------------------------------------------------------------------
(* Unit conversion: TemperatureSource._f2c, _c2f *)

\* _f2c with the factor of _c2f (a variant the round trip tells apart)
f2c_swapped(f) == RMul(RSub(f, RInt(32)), Rat(9, 5))
\* 'F -> 'C: (f - 32) * (5.0 / 9.0)
f2c(f) == RMul(RSub(f, RInt(32)), Rat(5, 9))

\* 'C -> 'F: c * (9.0 / 5.0) + 32
c2f(c) == RAdd(RMul(c, Rat(9, 5)), RInt(32))

\* the offset the script applies to Celsius for the Kelvin column: 273.15
KelvinOffset == Rat(27315, 100)

\* the Kelvin column as load_data computes it: data["temperature C"] - 273.15
c2k(c) == RSub(c, KelvinOffset)

-----------------------------------------------------------------------------
(* Time zones: PACIFIC_TZ, UTC_TZ and pandas' tz_localize / tz_convert *)

PACIFIC_TZ == "US/Pacific"
UTC_TZ == "UTC"
Zones == {PACIFIC_TZ, UTC_TZ}

MinutesPerDay == 1440

\* 2019-11-03 09:00 UTC, when US/Pacific falls back from PDT to PST
DSTEnd == 105660
\* the offsets of US/Pacific from UTC, in minutes
PDTOffset == -420
PSTOffset == -480

\* the offset from UTC in force in zone tz at instant i
\* (good for instants between 2019-03-10 and 2020-03-08)
UtcOffset(tz, i) ==
    IF tz = PACIFIC_TZ THEN (IF i < DSTEnd THEN PDTOffset ELSE PSTOffset) ELSE 0

NaT == [inst |-> 0, tz |-> "NaT"]
Naive(w) == [inst |-> w, tz |-> "naive"]

\* the wall-clock reading of a timestamp, in minutes
Wall(ts) == ts.inst + UtcOffset(ts.tz, ts.inst)
\* Timestamp.time(), Series.dt.time: the minute of the day
TimeOfDay(ts) == Wall(ts) % MinutesPerDay
\* Series.dt.date: the day number
DateOf(ts) == Wall(ts) \div MinutesPerDay

\* the instants whose wall-clock reading in zone tz is w
InstantsOf(tz, w) ==
    IF tz = PACIFIC_TZ
    THEN {i \in {w - PDTOffset, w - PSTOffset} : i + UtcOffset(tz, i) = w}
    ELSE {w}

\* Series.dt.tz_localize(tz) raises AmbiguousTimeError or NonExistentTimeError
\* unless every wall-clock reading names exactly one instant
CanLocalize(tz, walls) ==
    \A k \in 1..Len(walls) : Cardinality(InstantsOf(tz, walls[k].inst)) = 1

tz_localize(tz, walls) ==
    [k \in 1..Len(walls) |->
        [inst |-> CHOOSE i \in InstantsOf(tz, walls[k].inst) : TRUE, tz |-> tz]]

\* tz_convert keeping the wall-clock reading instead of the instant (a variant)
tz_convert_relabels(tz, stamps) ==
    [k \in 1..Len(stamps) |->
        [inst |-> Wall(stamps[k]) - UtcOffset(tz, Wall(stamps[k])), tz |-> tz]]
\* Series.dt.tz_convert(tz): the same instants, read in zone tz
tz_convert(tz, stamps) ==
    [k \in 1..Len(stamps) |-> [inst |-> stamps[k].inst, tz |-> tz]]

-----------------------------------------------------------------------------
(* The CSV files under DATA_PATH *)

\* event.csv: readings of the event week, 2019-08-25 08:00 and 08:06
\* autumn.csv: readings around 2019-11-03 09:00, the instant (in UTC) at which
\*   US/Pacific goes back to standard time: 08:57 and 09:03
\* fallback.csv: readings of the hour that night has twice on US/Pacific
\*   clocks: 2019-11-03 01:30 and 01:36
CsvFiles == {"event.csv", "autumn.csv", "fallback.csv"}
FileNames == CsvFiles \cup {"missing.csv"}

\* pd.read_csv(...)[use_cols]: the rows of a file, <<wall-clock minute, reading>>
read_csv(file) ==
    CASE file = "event.csv"    -> << <<4800, 20>>, <<4806, 25>> >>
      [] file = "autumn.csv"   -> << <<105657, 10>>, <<105663, 15>> >>
      [] file = "fallback.csv" -> << <<105210, 30>>, <<105216, 35>> >>

-----------------------------------------------------------------------------
(* TemperatureSource *)

Units == {"C", "F", "K"}

\* the descriptors a registry entry is drawn from: the fields load_data reads
\* (display_tz is left to its default, as in every entry of REGISTERED_DATA)
Descriptors ==
    [filename : FileNames, temp_units : Units, data_tz : Zones,
     display_tz : {PACIFIC_TZ}]

\* the columns "temperature C", "temperature F", "temperature K" of source.data
Columns == {"C", "F", "K"}

\* a source that has no attribute data.  source.data is modelled by loaded
\* (hasattr(source, "data")), dt (the column datetime) and temp (the temperature
\* columns, by unit); raised records what the last load_data call on the source
\* raised ("not called": there was none, "none": it returned)
NoData == [loaded |-> FALSE, dt |-> << >>, temp |-> << >>, raised |-> "not called"]

Column(rows, k) == [i \in 1..Len(rows) |-> rows[i][k]]

\* the temperature columns when the unit is supported
both_conversions(units, raw) ==
    LET c == IF units = "C" THEN raw ELSE [k \in DOMAIN raw |-> f2c(raw[k])]
        f == IF units = "F" THEN raw ELSE [k \in DOMAIN raw |-> c2f(raw[k])]
    IN  ("C" :> c) @@ ("F" :> f) @@ ("K" :> [k \in DOMAIN c |-> c2k(c[k])])

\* source.data after load_data ended with exception e ("none": returned)
Loaded(dt, temp, e) ==
    [data |-> [loaded |-> TRUE, dt |-> dt, temp |-> temp, raised |-> e], err |-> e]

\* load_data without the check of the unit (a variant)
load_data_unit_unchecked(src, old) ==
    IF src.filename \notin CsvFiles
    THEN [data |-> [old EXCEPT !.raised = "FileNotFoundError"],
          err |-> "FileNotFoundError"]
    ELSE LET rows  == read_csv(src.filename)
             walls == [k \in DOMAIN Column(rows, 1) |-> Naive(Column(rows, 1)[k])]
             raw   == [k \in DOMAIN Column(rows, 2) |-> RInt(Column(rows, 2)[k])]
             dt    == tz_convert(src.display_tz, tz_localize(src.data_tz, walls))
         IN  IF ~CanLocalize(src.data_tz, walls)
             THEN Loaded(walls, src.temp_units :> raw, "AmbiguousTimeError")
             ELSE Loaded(dt, both_conversions(src.temp_units, raw), "none")
\* TemperatureSource.load_data: the new value of source.data and the exception
\* raised ("none": it returned)
load_data(src, old) ==
    \* pd.read_csv raises and self.data is not assigned
    IF src.filename \notin CsvFiles
    THEN [data |-> [old EXCEPT !.raised = "FileNotFoundError"],
          err |-> "FileNotFoundError"]
    ELSE LET rows  == read_csv(src.filename)
             walls == [k \in DOMAIN Column(rows, 1) |-> Naive(Column(rows, 1)[k])]
             raw   == [k \in DOMAIN Column(rows, 2) |-> RInt(Column(rows, 2)[k])]
             dt    == tz_convert(src.display_tz, tz_localize(src.data_tz, walls))
         IN  \* tz_localize raises: datetime is parsed, the reading is renamed
             IF ~CanLocalize(src.data_tz, walls)
             THEN Loaded(walls, src.temp_units :> raw, "AmbiguousTimeError")
             \* the unit is checked last
             ELSE IF src.temp_units \notin {"C", "F"}
             THEN Loaded(dt, src.temp_units :> raw, "ValueError")
             ELSE Loaded(dt, both_conversions(src.temp_units, raw), "none")

RECURSIVE LoadFrom(_, _, _)
\* load_data_files going on after a source has raised (a variant)
LoadFrom_keeps_going(reg, d, i) ==
    IF i > Len(reg)
    THEN [data |-> d, err |-> "none"]
    ELSE LoadFrom(reg, [d EXCEPT ![i] = load_data(reg[i], d[i]).data], i + 1)
\* load_data_files: load_data on each source in turn, up to the first that raises
LoadFrom(reg, d, i) ==
    IF i > Len(reg)
    THEN [data |-> d, err |-> "none"]
    ELSE LET r == load_data(reg[i], d[i])
             e == [d EXCEPT ![i] = r.data]
         IN  IF r.err # "none" THEN [data |-> e, err |-> r.err]
                               ELSE LoadFrom(reg, e, i + 1)

load_data_files(reg, d) == LoadFrom(reg, d, 1)

-----------------------------------------------------------------------------
(* The sun table: get_sun_transitions *)

\* Astral.sunrise_utc / sunset_utc at Black Rock City for day d of the timeline:
\* sunrise 06:09 PDT on 2019-08-22, a minute later each day; sunset 19:48 PDT,
\* a minute earlier each day (it falls on the next UTC day)
sunrise_utc(d) == [inst |-> d * MinutesPerDay + 789 + d, tz |-> UTC_TZ]
sunset_utc(d) == [inst |-> (d + 1) * MinutesPerDay + 168 - d, tz |-> UTC_TZ]

\* the default date range, 2019-08-22 .. 2019-09-03
DefaultStart == 0
DefaultDays == 13

\* Series.shift(1): every value one row down, NaT in the first row
shift1(col) == [i \in 1..Len(col) |-> IF i = 1 THEN NaT ELSE col[i - 1]]

\* get_sun_transitions(start_date, end_date), the range given as first day, days
get_sun_transitions(start, days) ==
    LET dates   == [i \in 1..days |-> start + i - 1]
        sunrise == tz_convert(PACIFIC_TZ, [k \in DOMAIN dates |-> sunrise_utc(dates[k])])
        sunset  == tz_convert(PACIFIC_TZ, [k \in DOMAIN dates |-> sunset_utc(dates[k])])
        prev    == shift1(sunset)
    IN  [i \in 1..days |->
            [sunrise |-> sunrise[i], sunset |-> sunset[i], prev_sunset |-> prev[i]]]

-----------------------------------------------------------------------------
(* Traces *)

\* TEMPERATURE_RANGE
TempRangeLow == 50
TempRangeHigh == 110

\* TemperatureSource.name of the registry's sources, "<recording_location> - <owner>"
SourceNames ==
    << "shiftpod2 - mjp", "shiftpod2 - pnelson", "outdoors - Altitude Lounge",
       "h12yurt - myq", "shiftpod1 - bunnie" >>

\* get_night_rect_traces(daylight_df): one filled rectangle per row
get_night_rect_traces(df) ==
    [i \in 1..Len(df) |->
        [name |-> "night", fill |-> "toself", showlegend |-> (i = 1),
         x |-> << df[i].prev_sunset, df[i].prev_sunset, df[i].sunrise, df[i].sunrise >>,
         y |-> << TempRangeLow, TempRangeHigh, TempRangeHigh, TempRangeLow >>]]

\* get_source_data_trace(source, units) for source i: loads the source if it has
\* no data, then reads the columns (KeyError when one is absent)
get_source_data_trace(reg, d, i, units) ==
    LET r == IF d[i].loaded THEN [data |-> d[i], err |-> "none"]
                            ELSE load_data(reg[i], d[i])
        e == [d EXCEPT ![i] = r.data]
    IN  IF r.err # "none" THEN [data |-> e, err |-> r.err, trace |-> << >>]
        ELSE IF units \notin DOMAIN r.data.temp
        THEN [data |-> e, err |-> "KeyError", trace |-> << >>]
        ELSE [data |-> e, err |-> "none",
              trace |-> << [name |-> SourceNames[i], fill |-> "none",
                            showlegend |-> TRUE,
                            x |-> r.data.dt, y |-> r.data.temp[units]] >>]

IsNight(tr) == tr.fill = "toself"
IsTemperature(tr) == tr.fill = "none" /\ tr.name # "placeholder"

-----------------------------------------------------------------------------
(* The full-range chart: plot_week_temperatures *)

WeekFile(units) ==
    CASE units = "C" -> "phage_temperature_C_2019.html"
      [] units = "F" -> "phage_temperature_F_2019.html"
      [] units = "K" -> "phage_temperature_K_2019.html"
WeekFiles == {WeekFile(u) : u \in Units}
AverageFile == "phage_average_temperature_2019.html"

NoFigure == [data |-> << >>, title |-> "", ytitle |-> ""]

\* [get_source_data_trace(source) for source in data_sources], from source i on:
\* the units argument is left to its default, "F"
RECURSIVE TemperatureTraces(_, _, _)
TemperatureTraces(reg, d, i) ==
    IF i > Len(reg)
    THEN [data |-> d, err |-> "none", traces |-> << >>]
    ELSE LET r == get_source_data_trace(reg, d, i, "F")
         IN  IF r.err # "none"
             THEN [data |-> r.data, err |-> r.err, traces |-> << >>]
             ELSE LET rest == TemperatureTraces(reg, r.data, i + 1)
                  IN  [rest EXCEPT !.traces = r.trace \o @]

\* the trace list with the temperature traces first (a variant)
week_traces_lines_first(night_traces, temperature_traces) ==
    temperature_traces \o night_traces
\* traces = night_traces + temperature_traces
week_traces(night_traces, temperature_traces) ==
    night_traces \o temperature_traces

\* if not hasattr(data_sources[0], "data"): load_data_files()
load_if_no_data(reg, d) ==
    IF d[1].loaded THEN [data |-> d, err |-> "none"]
                   ELSE load_data_files(reg, d)

\* the temperature traces, once the sources are there (l: what loading gave)
traces_after_load(reg, l) ==
    IF l.err # "none"
    THEN [data |-> l.data, err |-> l.err, traces |-> << >>]
    ELSE TemperatureTraces(reg, l.data, 1)

\* go.Figure(data=traces, layout=...) and plot(fig, filename=out_filename), given
\* the temperature traces t
week_figure(t, sun, units) ==
    IF t.err # "none"
    THEN [data |-> t.data, err |-> t.err, fig |-> NoFigure, written |-> {}]
    ELSE [data |-> t.data, err |-> "none",
          fig |-> [data |-> week_traces(get_night_rect_traces(sun), t.traces),
                   title |-> "Dwelling temperature - BRC 2019",
                   ytitle |-> units],
          written |-> {WeekFile(units)}]

\* plot_week_temperatures(data_sources, sun_df, units) on the registry: the new
\* source data, the exception raised, the figure and the file written
plot_week_temperatures(reg, d, sun, units) ==
    week_figure(traces_after_load(reg, load_if_no_data(reg, d)), sun, units)

-----------------------------------------------------------------------------
(* The 24-hour average: daily_mean_for_source, extract_daily_means *)

\* the resampling rule "3T"
ResampleMinutes == 3

FloorTo(x, step) == x - (x % step)

RECURSIVE SumOver(_, _)
SumOver(S, val) ==
    IF S = {} THEN RInt(0)
    ELSE LET g == CHOOSE x \in S : TRUE
         IN  RAdd(val[g], SumOver(S \ {g}, val))

\* the grid of tempf.resample("3T"): from the bin of the first reading to the
\* bin of the last, dt being in time order
ResampleGrid(dt) ==
    {g \in FloorTo(dt[1].inst, ResampleMinutes)
             .. FloorTo(dt[Len(dt)].inst, ResampleMinutes) :
        g % ResampleMinutes = 0}

\* .ffill(): the last reading at or before the grid point (a variant)
ffill_index(dt, g) ==
    IF \E i \in 1..Len(dt) : dt[i].inst <= g
    THEN CHOOSE i \in 1..Len(dt) :
            dt[i].inst <= g /\ (i = Len(dt) \/ dt[i + 1].inst > g)
    ELSE 1
\* .bfill(): a grid point takes the first reading at or after it
bfill_index(dt, g) ==
    CHOOSE i \in 1..Len(dt) : dt[i].inst >= g /\ (i = 1 \/ dt[i - 1].inst < g)

\* the times of day of the resampled series: tempf_df['time']
daily_times(dt) ==
    {TimeOfDay([inst |-> g, tz |-> dt[1].tz]) : g \in ResampleGrid(dt)}

\* groupby('time').mean() at time of day t: the mean of the resampled values of
\* all the grid points whose time of day is t
daily_mean_at(dt, tempf, t) ==
    LET same  == {g \in ResampleGrid(dt) :
                    TimeOfDay([inst |-> g, tz |-> dt[1].tz]) = t}
        value == [g \in same |-> tempf[bfill_index(dt, g)]]
    IN  RDivInt(SumOver(same, value), Cardinality(same))

\* daily_mean_for_source on the columns datetime and "temperature F": for each
\* time of day of the grid, the mean of the grid's values at that time
daily_mean_for_source(dt, tempf) ==
    [t \in daily_times(dt) |-> daily_mean_at(dt, tempf, t)]

\* extract_daily_means(data_sources): the exception raised, the index (the times
\* of day of all sources; pandas keeps them in increasing order) and one column
\* per source, indexed by time of day, NaN where the source has no value
\* (AttributeError: a source without data; KeyError: data without the column
\* "temperature F")
extract_daily_means(d) ==
    LET Usable(i) == d[i].loaded /\ "F" \in DOMAIN d[i].temp
    IN  IF \E i \in 1..Len(d) : ~Usable(i)
        THEN LET i == CHOOSE k \in 1..Len(d) :
                        ~Usable(k) /\ \A j \in 1..(k - 1) : Usable(j)
             IN  [err |-> IF d[i].loaded THEN "KeyError" ELSE "AttributeError",
                  index |-> {}, columns |-> << >>]
        ELSE LET index == UNION {daily_times(d[i].dt) : i \in 1..Len(d)}
             IN  [err |-> "none", index |-> index,
                  columns |-> [i \in 1..Len(d) |->
                                 [t \in index |->
                                     IF t \in daily_times(d[i].dt)
                                     THEN daily_mean_at(d[i].dt, d[i].temp["F"], t)
                                     ELSE NaN]]]

-----------------------------------------------------------------------------
(* The 24-hour chart: plot_period_averages *)

\* the y range of the chart, in F, and the height of the placeholder line
AvgRangeLow == 60
AvgRangeHigh == 100

\* the two fixed night rectangles: 00:00 - 06:15 and 19:42 - 23:57
NightMorningEnd == 375
NightEveningStart == 1182
NightEveningEnd == 1437

FixedNightTraces ==
    LET ys == << AvgRangeLow, AvgRangeHigh, AvgRangeHigh, AvgRangeLow >>
    IN  << [name |-> "night", fill |-> "toself", showlegend |-> TRUE,
            x |-> << 0, 0, NightMorningEnd, NightMorningEnd >>, y |-> ys],
           [name |-> "night", fill |-> "toself", showlegend |-> FALSE,
            x |-> << NightEveningStart, NightEveningStart,
                     NightEveningEnd, NightEveningEnd >>, y |-> ys] >>

\* the trace list of the chart: the placeholder, the night rectangles, the sources
average_traces(placeholder, night_traces, source_traces) ==
    placeholder \o night_traces \o source_traces

\* plot_period_averages(data_sources, sun_df) on the registry (the mean sunset and
\* sunrise it computes from sun_df are not used: the rectangles have fixed edges)
plot_period_averages(d, sun) ==
    LET m == extract_daily_means(d)
        placeholder ==
            << [name |-> "placeholder", fill |-> "none", showlegend |-> FALSE,
                x |-> m.index, y |-> [t \in m.index |-> AvgRangeLow]] >>
        sources ==
            [i \in 1..Len(d) |->
                [name |-> SourceNames[i], fill |-> "none", showlegend |-> TRUE,
                 x |-> m.index, y |-> m.columns[i]]]
    IN  IF m.err # "none"
        THEN [err |-> m.err, fig |-> NoFigure, written |-> {}]
        ELSE [err |-> "none",
              fig |-> [data |-> average_traces(placeholder, FixedNightTraces, sources),
                       title |-> "Dwelling 24H average temperature - BRC 2019",
                       ytitle |-> "(F)"],
              written |-> {AverageFile}]

-----------------------------------------------------------------------------
(* The script: main(), and the same functions called one by one from an     *)
(* interactive session (is_interactive)                                     *)

Init ==
    /\ registry \in [1..NumSources -> Descriptors]
    /\ data = [i \in 1..NumSources |-> NoData]
    /\ pc = "start"
    /\ err = "none"
    /\ sun_range = <<0, 0>>
    /\ sun_df = << >>
    /\ fig_week = NoFigure
    /\ fig_avg = NoFigure
    /\ files = {}
    /\ fn_in = << >>
    /\ fn_out = << >>

\* main(): load_data_files(REGISTERED_DATA)
MainLoad ==
    /\ pc = "start"
    /\ \E r \in {load_data_files(registry, data)} :
           /\ data' = r.data
           /\ err' = r.err
           /\ pc' = IF r.err = "none" THEN "main_loaded" ELSE "main_failed"
    /\ UNCHANGED <<registry, sun_range, sun_df, fig_week, fig_avg, files, fn_in, fn_out>>

\* main(): sun_df = get_sun_transitions()
MainSun ==
    /\ pc = "main_loaded"
    /\ sun_range' = <<DefaultStart, DefaultDays>>
    /\ sun_df' = get_sun_transitions(DefaultStart, DefaultDays)
    /\ pc' = "main_sun"
    /\ UNCHANGED <<registry, data, err, fig_week, fig_avg, files, fn_in, fn_out>>

\* plot_week_temperatures(REGISTERED_DATA, sun_df, units)
PlotWeek(units, ok, failed) ==
    \E r \in {plot_week_temperatures(registry, data, sun_df, units)} :
        /\ data' = r.data
        /\ err' = r.err
        /\ fig_week' = r.fig
        /\ files' = files \cup r.written
        /\ pc' = IF r.err = "none" THEN ok ELSE failed
        /\ UNCHANGED <<registry, sun_range, sun_df, fig_avg, fn_in, fn_out>>

\* plot_period_averages(REGISTERED_DATA, sun_df)
PlotAverages(ok, failed) ==
    \E r \in {plot_period_averages(data, sun_df)} :
        /\ err' = r.err
        /\ fig_avg' = r.fig
        /\ files' = files \cup r.written
        /\ pc' = IF r.err = "none" THEN ok ELSE failed
        /\ UNCHANGED <<registry, data, sun_range, sun_df, fig_week, fn_in, fn_out>>

\* main(): plot_week_temperatures(REGISTERED_DATA, sun_df)
MainWeek == pc = "main_sun" /\ PlotWeek("F", "main_week", "main_failed")

\* main(): plot_period_averages(REGISTERED_DATA, sun_df)
MainAverages == pc = "main_week" /\ PlotAverages("main_done", "main_failed")

\* a direct call of get_sun_transitions(start_date, end_date)
CallSun ==
    /\ pc = "start"
    /\ \E days \in 1..MaxDays :
          /\ sun_range' = <<DefaultStart, days>>
          /\ sun_df' = get_sun_transitions(DefaultStart, days)
    /\ pc' = "call_sun"
    /\ UNCHANGED <<registry, data, err, fig_week, fig_avg, files, fn_in, fn_out>>

\* a direct call of plot_week_temperatures(REGISTERED_DATA, sun_df, units=u)
CallWeek ==
    /\ pc = "call_sun"
    /\ \E u \in Units : PlotWeek(u, "call_week", "call_failed")

\* a direct call of plot_period_averages(REGISTERED_DATA, sun_df)
CallAverages ==
    /\ pc \in {"call_sun", "call_week"}
    /\ PlotAverages("call_done", "call_failed")

Next ==
    \/ MainLoad
    \/ MainSun
    \/ MainWeek
    \/ MainAverages
    \/ CallSun
    \/ CallWeek
    \/ CallAverages

Spec == Init /\ [][Next]_vars

-----------------------------------------------------------------------------
(* mean_time, ts_to_epoch_seconds *)

\* ts_to_epoch_seconds(t): t.astype(int) / 1e9, the instants of the series as
\* numbers (here in minutes, counted from a midnight UTC as the epoch is)
ts_to_epoch_seconds(ser) == [k \in 1..Len(ser) |-> RInt(ser[k].inst)]

RFloor(q) == q[1] \div q[2]

\* mean_time(ser, shift_timezone): the time of day, a rational minute of the day,
\* of the mean of the instants, read in US/Pacific when shift_timezone is set
\* and in UTC otherwise
mean_time(ser, shift_timezone) ==
    LET epochs          == ts_to_epoch_seconds(ser)
        mean_epoch_time == RDivInt(RSum(epochs), Len(epochs))
        zone            == IF shift_timezone THEN PACIFIC_TZ ELSE UTC_TZ
        wall            == RAdd(mean_epoch_time,
                                RInt(UtcOffset(zone, RFloor(mean_epoch_time))))
    IN  RSub(wall, RInt(MinutesPerDay * RFloor(RDivInt(wall, MinutesPerDay))))

\* the series handed to mean_time: sunrises in US/Pacific on the first days of
\* the event, at 06:14, 06:15 or 06:17
MeanDays == 0..2
MeanTimes == {374, 375, 377}
MeanStamps ==
    {[inst |-> d * MinutesPerDay + t - PDTOffset, tz |-> PACIFIC_TZ] :
        d \in MeanDays, t \in MeanTimes}
MeanInputs ==
    [ser : UNION {[1..n -> MeanStamps] : n \in 1..MaxMeanLen},
     shift_timezone : BOOLEAN]

Idle ==
    /\ registry = << >>
    /\ data = << >>
    /\ err = "none"
    /\ sun_range = <<0, 0>>
    /\ sun_df = << >>
    /\ fig_week = NoFigure
    /\ fig_avg = NoFigure
    /\ files = {}

IdleUnchanged ==
    UNCHANGED <<registry, data, err, sun_range, sun_df, fig_week, fig_avg, files>>

InitMeanTime ==
    /\ Idle
    /\ pc = "mean_start"
    /\ fn_in \in MeanInputs
    /\ fn_out = << >>

MeanTime ==
    /\ pc = "mean_start"
    /\ fn_out' = mean_time(fn_in.ser, fn_in.shift_timezone)
    /\ pc' = "mean_done"
    /\ UNCHANGED fn_in
    /\ IdleUnchanged

SpecMeanTime == InitMeanTime /\ [][MeanTime]_vars

-----------------------------------------------------------------------------
(* The round trip of the unit conversions *)

InitConv ==
    /\ Idle
    /\ pc = "conv_start"
    /\ fn_in \in {Rat(n, 10) : n \in (-MaxTenths)..MaxTenths}
    /\ fn_out = << >>

\* _c2f(c)
ConvToF ==
    /\ pc = "conv_start"
    /\ fn_out' = c2f(fn_in)
    /\ pc' = "conv_f"
    /\ UNCHANGED fn_in
    /\ IdleUnchanged

\* _f2c(_c2f(c))
ConvBack ==
    /\ pc = "conv_f"
    /\ fn_out' = f2c(fn_out)
    /\ pc' = "conv_c"
    /\ UNCHANGED fn_in
    /\ IdleUnchanged

NextConv == ConvToF \/ ConvBack

SpecConv == InitConv /\ [][NextConv]_vars

-----------------------------------------------------------------------------
(* daily_mean_for_source applied to a loaded series *)

\* the days (2019-08-25, 2019-08-26), the times of day (08:00, 20:01) and the
\* readings ('F) of the sparse series; 0: no reading
SeriesDays == {3, 4}
ReadingTimes == {480, 1201}
ReadingValues == {70, 72}

PacificStamp(day, t) == [inst |-> day * MinutesPerDay + t - PDTOffset, tz |-> PACIFIC_TZ]

\* the series with the readings f, in time order
SeriesOf(f) ==
    LET slots == {s \in DOMAIN f : f[s] # 0}
        Key(s) == s[1] * MinutesPerDay + s[2]
        order == [k \in 1..Cardinality(slots) |->
                    CHOOSE s \in slots :
                        Cardinality({r \in slots : Key(r) < Key(s)}) = k - 1]
    IN  [dt    |-> [k \in 1..Cardinality(slots) |-> PacificStamp(order[k][1], order[k][2])],
         tempf |-> [k \in 1..Cardinality(slots) |-> RInt(f[order[k]])]]

SparseSeries ==
    {SeriesOf(f) : f \in {g \in [SeriesDays \X ReadingTimes -> {0} \cup ReadingValues] :
                            \E s \in DOMAIN g : g[s] # 0}}

\* a reading every 3 minutes of both days, from 00:00 of the first to 23:57 of
\* the second; the reading steps up every 8 hours from the day's base
PerDay == MinutesPerDay \div ResampleMinutes
DenseSeriesOf(base3, base4) ==
    LET Day(k) == 3 + (k - 1) \div PerDay
        Tod(k) == ((k - 1) % PerDay) * ResampleMinutes
    IN  [dt    |-> [k \in 1..(2 * PerDay) |-> PacificStamp(Day(k), Tod(k))],
         tempf |-> [k \in 1..(2 * PerDay) |->
                      RInt((IF Day(k) = 3 THEN base3 ELSE base4) + Tod(k) \div 480)]]

DenseSeries == {DenseSeriesOf(a, b) : a \in ReadingValues, b \in ReadingValues}

InitDailyMean ==
    /\ Idle
    /\ pc = "daily_start"
    /\ fn_in \in SparseSeries \cup DenseSeries
    /\ fn_out = << >>

DailyMean ==
    /\ pc = "daily_start"
    /\ fn_out' = daily_mean_for_source(fn_in.dt, fn_in.tempf)
    /\ pc' = "daily_done"
    /\ UNCHANGED fn_in
    /\ IdleUnchanged

SpecDailyMean == InitDailyMean /\ [][DailyMean]_vars

-----------------------------------------------------------------------------
(* Properties *)

BadUnit(i) == registry[i].temp_units \notin {"C", "F"}
Sources == DOMAIN data
\* load_data returned on source i
HasLoaded(i) == data[i].raised = "none"
\* the k-th row of the file of source i, as recorded
Recorded(i, k) == read_csv(registry[i].filename)[k]

\* C1: after load_data succeeds, on every row the Kelvin column is the Celsius
\* column plus 273.15, whatever the declared unit; for a source declared in F
\* the Celsius column is (F - 32) * 5/9.
C1_KelvinIsCelsiusPlus273 ==
    \A i \in Sources : HasLoaded(i) =>
        \A k \in 1..Len(data[i].dt) :
            /\ data[i].temp["K"][k] = RAdd(data[i].temp["C"][k], Rat(27315, 100))
            /\ registry[i].temp_units = "F" =>
                  data[i].temp["C"][k] = Rat((Recorded(i, k)[2] - 32) * 5, 9)

Readable(i) ==
    /\ registry[i].filename \in CsvFiles
    /\ ~(registry[i].filename = "fallback.csv" /\ registry[i].data_tz = PACIFIC_TZ)

MainPcs == {"main_loaded", "main_sun", "main_week", "main_done", "main_failed"}

\* C3: in a run of main(), when a registered source has an unsupported unit the
\* run halts and writes neither HTML file; every source is loaded before the sun
\* table is computed and before anything is rendered.
C3_NoPartialOutput ==
    pc \in MainPcs =>
        /\ (\E i \in Sources : BadUnit(i)) =>
              /\ pc = "main_failed"
              /\ files = {}
              /\ fig_week = NoFigure /\ fig_avg = NoFigure
        /\ (pc # "main_failed" \/ files # {}) => \A i \in Sources : HasLoaded(i)

C3_Witness ==
    /\ pc = "main_failed"
    /\ err = "ValueError"
    /\ HasLoaded(1)
    /\ \E i \in Sources : BadUnit(i) /\ data[i].raised = "ValueError"
    /\ files = {}

\* the loaded timestamps of the sources whose datetime column is in UTC, with
\* the wall-clock time each was recorded with
UtcRows ==
    UNION {{<<i, k>> : k \in 1..Len(data[i].dt)} :
              i \in {j \in Sources : HasLoaded(j) /\ registry[j].data_tz = UTC_TZ}}
WallShift(r) == Wall(data[r[1]].dt[r[2]]) - Recorded(r[1], r[2])[1]

\* C4, as claimed: every loaded timestamp is zone-aware, in the display zone, and
\* for the sources recorded in UTC the wall-clock time differs from the recorded
\* one by one constant offset; series and sun table are in one zone.
C4_ConstantOffset ==
    /\ \A i \in Sources : HasLoaded(i) =>
          \A k \in 1..Len(data[i].dt) : data[i].dt[k].tz = registry[i].display_tz
    /\ \A r, q \in UtcRows : WallShift(r) = WallShift(q)
    /\ \A i \in Sources, k \in 1..Len(sun_df) :
          HasLoaded(i) => data[i].dt[1].tz = sun_df[k].sunrise.tz

\* C4, amended: every loaded timestamp is zone-aware, in the source's display
\* zone, and denotes the recorded instant; for the sources recorded in UTC the
\* wall-clock time differs from the recorded one by the offset of US/Pacific in
\* force at that instant: 7 hours before 2019-11-03 09:00 UTC (all of the event),
\* 8 hours from then on.  Every source being displayed in US/Pacific, the zone of
\* the sun table, the series and the sun table are in one zone.
C4_OffsetInForce ==
    /\ \A i \in Sources : HasLoaded(i) =>
          \A k \in 1..Len(data[i].dt) :
              LET ts == data[i].dt[k]
                  w  == Recorded(i, k)[1]
              IN  /\ ts.tz = registry[i].display_tz
                  /\ registry[i].data_tz = UTC_TZ =>
                        /\ ts.inst = w
                        /\ Wall(ts) - w = IF w < DSTEnd THEN -420 ELSE -480
                  /\ registry[i].data_tz = PACIFIC_TZ => Wall(ts) = w
    /\ \A i \in Sources, k \in 1..Len(sun_df) :
          HasLoaded(i) =>
              /\ data[i].dt[1].tz = sun_df[k].sunrise.tz
              /\ data[i].dt[1].tz = sun_df[k].sunset.tz

C4_Witness ==
    /\ sun_df # << >>
    /\ \E r, q \in UtcRows : WallShift(r) = -420 /\ WallShift(q) = -480

\* sunrise and sunset of day d at Black Rock City, in US/Pacific
SunriseOf(d) == [inst |-> sunrise_utc(d).inst, tz |-> PACIFIC_TZ]
SunsetOf(d) == [inst |-> sunset_utc(d).inst, tz |-> PACIFIC_TZ]

NightTracesOf(fig) == SelectSeq(fig.data, IsNight)
TemperatureTracesOf(fig) == SelectSeq(fig.data, IsTemperature)
DisplayRange == << TempRangeLow, TempRangeHigh, TempRangeHigh, TempRangeLow >>

\* C6: the full-range chart has exactly one rectangle per day d of
\* the date range, spanning on the x axis from the sunset of day d-1 to the
\* sunrise of day d and on the y axis the display range; every rectangle's
\* previous sunset is defined and precedes its sunrise.
C6_EveryDayHasNightSpan ==
    fig_week # NoFigure =>
        LET night == NightTracesOf(fig_week)
        IN  /\ Len(night) = sun_range[2]
            /\ \A i \in 1..Len(night) :
                  LET d == sun_range[1] + i - 1
                  IN  /\ night[i].x = << SunsetOf(d - 1), SunsetOf(d - 1),
                                         SunriseOf(d), SunriseOf(d) >>
                      /\ night[i].y = DisplayRange
                      /\ night[i].x[1] # NaT
                      /\ night[i].x[1].inst < night[i].x[3].inst

\* every night-shading trace of the figure comes before every temperature trace
ShadingBelowLines(fig) ==
    \A i, j \in 1..Len(fig.data) :
        IsNight(fig.data[i]) /\ IsTemperature(fig.data[j]) => i < j

C10_TracesInAnnouncedUnit ==
    fig_week # NoFigure =>
        LET lines == TemperatureTracesOf(fig_week)
        IN  /\ Len(lines) = Len(registry)
            /\ WeekFile(fig_week.ytitle) \in files
            /\ \A i \in 1..Len(lines) :
                  /\ HasLoaded(i)
                  /\ lines[i].x = data[i].dt
                  /\ lines[i].y = data[i].temp[fig_week.ytitle]

-----------------------------------------------------------------------------
(* Properties of the functions applied on their own *)

\* C9: converting a Celsius value to Fahrenheit and back gives the value again
\* (in exact arithmetic).
C9_RoundTrip == pc = "conv_c" => fn_out = fn_in

C9_Witness == pc = "conv_c" /\ fn_in = <<-371, 10>> /\ fn_out = <<-371, 10>>

\* the time of day of a timestamp read in zone tz
TimeOfDayIn(tz, ts) == (ts.inst + UtcOffset(tz, ts.inst)) % MinutesPerDay

\* C7: for a series of timestamps whose times of day lie close together, on
\* whatever days, mean_time is the arithmetic mean of the times of day.
C7_MeanOfTimesOfDay ==
    pc = "mean_done" =>
        LET zone  == IF fn_in.shift_timezone THEN PACIFIC_TZ ELSE UTC_TZ
            times == [k \in 1..Len(fn_in.ser) |-> RInt(TimeOfDayIn(zone, fn_in.ser[k]))]
        IN  fn_out = RDivInt(RSum(times), Len(times))

\* the series of the example: 70 'F at 08:00 on 2019-08-25, 72 'F at 08:00 the
\* next day
ExampleSeries ==
    [dt |-> << PacificStamp(3, 480), PacificStamp(4, 480) >>,
     tempf |-> << RInt(70), RInt(72) >>]

\* the instant of time of day t on day d, on US/Pacific clocks in summer
ClockInstant(d, t) == d * MinutesPerDay + t + 420

\* time of day t of day d is a point of the 3-minute grid of the series
OnGrid(dt, d, t) ==
    /\ t % 3 = 0
    /\ dt[1].inst - (dt[1].inst % 3) <= ClockInstant(d, t)
    /\ ClockInstant(d, t) <= dt[Len(dt)].inst

\* the reading next at or after instant g
NextReading(ser, g) ==
    ser.tempf[CHOOSE i \in 1..Len(ser.dt) :
                /\ ser.dt[i].inst >= g
                /\ \A j \in 1..Len(ser.dt) :
                      ser.dt[j].inst >= g => ser.dt[i].inst <= ser.dt[j].inst]

StampDay(ts) == (ts.inst - 420) \div MinutesPerDay
StampTime(ts) == (ts.inst - 420) % MinutesPerDay

\* the series has its readings on the 3-minute grid, at the same times of day on
\* each of its days, with the same value at the same time of day
RepeatsDaily(ser) ==
    LET n == Len(ser.dt)
        days == StampDay(ser.dt[1]) .. StampDay(ser.dt[n])
    IN  \A i \in 1..n :
           /\ StampTime(ser.dt[i]) % 3 = 0
           /\ \A d \in days :
                 \E j \in 1..n :
                    /\ StampDay(ser.dt[j]) = d
                    /\ StampTime(ser.dt[j]) = StampTime(ser.dt[i])
                    /\ ser.tempf[j] = ser.tempf[i]

====
